---- MODULE Spec2Model ----
(***************************************************************************)
(* Model of src/account_sentinel.rs: AccountSentinel, a store of pending   *)
(* requests (an LruCache from Request to a BTreeMap from Name to Claim)    *)
(* with one operation, add_claim, which resolves a request to the lower    *)
(* median of its claims once enough distinct senders have reported.        *)
(***************************************************************************)
EXTENDS Integers, Sequences, FiniteSets, TLC

\* ------------------------------------------------------------------ bounds

\* Number of distinct request identifiers the callers use.
NumRequests == 3

\* Capacity the scaled scenarios run with: MAX_REQUEST_COUNT (1000) is
\* scaled down to it so that eviction happens.
Capacity == 2

\* Single-request scenario (test_single_request): senders and thresholds.
NumSenders == 4
SingleMaxThreshold == 4
\* Resolutions counted in the single-request scenario (the count saturates).
MaxRounds == 2

Requests == 1..NumRequests
Names == {1, 2}
Claims == {1, 2}
Thresholds == {0, 1, 2}

SingleRequest == 0
SingleNames == 1..NumSenders
SingleClaims == {1, 2, 3}
SingleThresholds == 1..SingleMaxThreshold

\* Eviction scenario: the claim value plays no part in eviction.
LruClaims == {1}

\* const MAX_REQUEST_COUNT: usize = 1000
MAX_REQUEST_COUNT == 1000

\* ------------------------------------------------------------- Option<Claim>

None == [tag |-> "None"]
Some(c) == [tag |-> "Some", val |-> c]
\* A Rust panic (out-of-range index); no path of the source reaches it.
Panic == [tag |-> "Panic"]

\* --------------------------------------------------- BTreeMap<Name, Claim>
\* A map is the set of its <<name, claim>> entries.

EmptyMap == {}

Keys(map) == {p[1] : p \in map}

\* Mutant: an existing entry under `sender` is kept (or_insert semantics).
MapInsertKeepFirst(map, sender, claim) ==
  IF sender \in Keys(map) THEN map ELSE map \cup {<<sender, claim>>}

\* map.insert(sender, claim): the entry under `sender` is replaced.
MapInsert(map, sender, claim) ==
  {p \in map : p[1] # sender} \cup {<<sender, claim>>}

\* map.len()
MapLen(map) == Cardinality(map)

\* ---------------------------------------- lru_time_cache::LruCache<K, V>
\* The cache is its capacity, the list of keys from least to most recently
\* used, and the key -> value map.

NoEntries == [k \in {} |-> EmptyMap]

LruWithCapacity(capacity) ==
  [capacity |-> capacity, list |-> <<>>, map |-> NoEntries]

LruContainsKey(cache, key) == key \in DOMAIN cache.map

RemoveKey(list, key) == SelectSeq(list, LAMBDA k : k # key)

\* update_key: the key becomes the most recently used.
UpdateKey(list, key) == Append(RemoveKey(list, key), key)

\* Mutant: the oldest key leaves the recency list and its value stays behind.
LruRemoveOldestKeepValue(cache) ==
  IF cache.list = <<>> THEN cache
  ELSE [cache EXCEPT !.list = Tail(cache.list)]

\* remove_oldest_element: drops the head of the list and its value.
LruRemoveOldest(cache) ==
  IF cache.list = <<>> THEN cache
  ELSE [cache EXCEPT !.list = Tail(cache.list),
                     !.map = [k \in DOMAIN cache.map \ {Head(cache.list)} |-> cache.map[k]]]

\* get_mut: access refreshes the key's recency.
LruGetMut(cache, key) ==
  IF LruContainsKey(cache, key)
  THEN [cache EXCEPT !.list = UpdateKey(cache.list, key)]
  ELSE cache

\* insert: a new key evicts the oldest entry when the cache is full.
LruInsert(cache, key, value) ==
  IF LruContainsKey(cache, key)
  THEN [cache EXCEPT !.list = UpdateKey(cache.list, key),
                     !.map = [k \in DOMAIN cache.map |-> IF k = key THEN value ELSE cache.map[k]]]
  ELSE LET room == IF Cardinality(DOMAIN cache.map) = cache.capacity
                   THEN LruRemoveOldest(cache) ELSE cache
       IN [room EXCEPT !.list = Append(room.list, key),
                       !.map = [k \in DOMAIN room.map \cup {key} |->
                                  IF k = key THEN value ELSE room.map[k]]]

\* entry(key).or_insert_with(default): an occupied entry is accessed through
\* get_mut, a vacant one is inserted and then accessed.
LruEntryOrInsert(cache, key, default) ==
  IF LruContainsKey(cache, key)
  THEN LruGetMut(cache, key)
  ELSE LruGetMut(LruInsert(cache, key, default), key)

\* remove(key)
LruRemove(cache, key) ==
  [cache EXCEPT !.list = RemoveKey(cache.list, key),
                !.map = [k \in DOMAIN cache.map \ {key} |-> cache.map[k]]]

\* Mutant: the claim is inserted into a copy of the entry's map, the stored
\* map is left as it was.
LruSetValueClone(cache, key, value) == cache

\* The value behind the &mut reference is updated in place.
LruSetValue(cache, key, value) ==
  [cache EXCEPT !.map = [k \in DOMAIN cache.map |-> IF k = key THEN value ELSE cache.map[k]]]

\* ------------------------------------------------------- AccountSentinel

\* Mutant: the cache is built one entry too large.
newOversized == LruWithCapacity(MAX_REQUEST_COUNT + 1)

\* AccountSentinel::new
new == LruWithCapacity(MAX_REQUEST_COUNT)

\* The scaled scenarios shift the capacity of a cache so that
\* MAX_REQUEST_COUNT becomes Capacity.
Scaled(cache) ==
  [cache EXCEPT !.capacity = cache.capacity - MAX_REQUEST_COUNT + Capacity]

\* map.iter().map(|(_, claim)| claim.clone()).collect::<Vec<_>>():
\* the claims in ascending key order.
RECURSIVE ClaimsOf(_)
ClaimsOf(map) ==
  IF map = {} THEN <<>>
  ELSE LET first == CHOOSE p \in map : \A q \in map : p[1] <= q[1]
       IN <<first[2]>> \o ClaimsOf(map \ {first})

\* claims.sort(): ascending, duplicates kept.
RECURSIVE InsertSorted(_, _)
InsertSorted(sorted, x) ==
  IF sorted = <<>> THEN <<x>>
  ELSE IF x <= Head(sorted) THEN <<x>> \o sorted
  ELSE <<Head(sorted)>> \o InsertSorted(Tail(sorted), x)

\* Mutant: the claims are left in key order.
SortForgotten(claims) == claims

RECURSIVE Sort(_)
Sort(claims) ==
  IF claims = <<>> THEN <<>>
  ELSE InsertSorted(Sort(Tail(claims)), Head(claims))

\* Mutant: one past the last element, claims.len().
MedianIndexLen(len) == len

\* Mutant: the upper middle element, claims.len() / 2.
MedianIndexUpper(len) == len \div 2

\* (claims.len() - 1) / 2, a 0-based index.
MedianIndex(len) == (len - 1) \div 2

\* AccountSentinel::pick_median
pick_median(map) ==
  IF map = EmptyMap THEN None
  ELSE LET claims == Sort(ClaimsOf(map))
           i == MedianIndex(Len(claims))
       IN IF i >= 0 /\ i < Len(claims) THEN Some(claims[i + 1]) ELSE Panic

\* Mutant: an occupied entry is read without refreshing its recency.
RequestEntryNoTouch(self, request) ==
  IF LruContainsKey(self, request) THEN self
  ELSE LruInsert(self, request, EmptyMap)

\* self.requests.entry(request.clone()).or_insert_with(|| Map::new())
RequestEntry(self, request) == LruEntryOrInsert(self, request, EmptyMap)

\* Mutant: map.len() <= threshold.
BelowThresholdInclusive(map, threshold) == MapLen(map) <= threshold

\* Mutant: map.len() + 1 < threshold.
BelowThresholdEarly(map, threshold) == MapLen(map) + 1 < threshold

\* map.len() < threshold
BelowThreshold(map, threshold) == MapLen(map) < threshold

\* Mutant: resolution clears the whole store.
RemoveResolvedAll(self, request) == LruWithCapacity(self.capacity)

\* Mutant: the resolved request's entry is left in the store.
RemoveResolvedKeep(self, request) == self

\* self.requests.remove(&request)
RemoveResolved(self, request) == LruRemove(self, request)

\* Mutant: a resolving call returns the claim just submitted (the closure
\* parameter `claim` of line 57 taken for the argument it shadows).
add_claimEcho(self, threshold, request, sender, claim) ==
  LET entered == RequestEntry(self, request)
      map == MapInsert(entered.map[request], sender, claim)
      stored == LruSetValue(entered, request, map)
  IN IF BelowThreshold(map, threshold)
     THEN [requests |-> stored, ret |-> None, path |-> "below"]
     ELSE IF pick_median(map) = None
     THEN [requests |-> stored, ret |-> None, path |-> "empty"]
     ELSE [requests |-> RemoveResolved(stored, request),
           ret |-> Some(claim), path |-> "resolved"]

\* AccountSentinel::add_claim: the store after the call, the value returned
\* and the path taken through the body.
add_claim(self, threshold, request, sender, claim) ==
  LET entered == RequestEntry(self, request)
      map == MapInsert(entered.map[request], sender, claim)
      stored == LruSetValue(entered, request, map)
  IN IF BelowThreshold(map, threshold)
     THEN [requests |-> stored, ret |-> None, path |-> "below"]
     ELSE LET median == pick_median(map)
          IN IF median = None
             THEN [requests |-> stored, ret |-> None, path |-> "empty"]
             ELSE IF median = Panic
             THEN [requests |-> stored, ret |-> Panic, path |-> "panic"]
             ELSE [requests |-> RemoveResolved(stored, request),
                   ret |-> median, path |-> "resolved"]

\* ------------------------------------------------------------------ state

VARIABLES
  requests,    \* AccountSentinel.requests
  ret,         \* value returned by the last add_claim call
  path,        \* path the last call took through add_claim
  call,        \* arguments of the last call
  pre,         \* AccountSentinel.requests before the last call
  touchOrder,  \* history: requests ordered by their last add_claim call
  preTouch,    \* touchOrder before the last call
  evicted,     \* history: requests whose entry was evicted and not submitted to since
  preEvicted,  \* evicted before the last call
  lastLeft,    \* history: the entry each request's last call left ({} when resolved)
  fixedT,      \* single-request scenario: the threshold of every call
  sent,        \* single-request scenario: latest claim per sender in this round
  fresh,       \* single-request scenario: no sender submitted twice in this round
  rounds,      \* single-request scenario: resolutions so far (capped)
  wanted,      \* construction scenario: the capacity the caller has in mind
  ref,         \* reference scenario: the unbounded aggregator's pending maps
  refRet,      \* reference scenario: what the unbounded aggregator returned
  overflowed,  \* reference scenario: more than Capacity requests were pending at once
  crowded      \* reference scenario: a request became pending beside Capacity others

vars == <<requests, ret, path, call, pre, touchOrder, preTouch, evicted,
          preEvicted, lastLeft, fixedT, sent, fresh, rounds, wanted,
          ref, refRet, overflowed, crowded>>

refVars == <<ref, refRet, overflowed, crowded>>

scenarioVars == <<fixedT, sent, fresh, rounds, wanted, refVars>>

lruHistory == <<touchOrder, preTouch, evicted, preEvicted, lastLeft>>

NoCall == [threshold |-> -1, request |-> -1, sender |-> 0, claim |-> 0]

Called == call # NoCall

Stored(cache) == DOMAIN cache.map

\* The requests the cache holds both a value and a recency position for.
Live(cache) == Stored(cache) \cap {cache.list[i] : i \in 1..Len(cache.list)}

\* One call of add_claim on the sentinel; call and pre record its arguments
\* and the store it started from.
Step(threshold, request, sender, claim) ==
  LET res == add_claim(requests, threshold, request, sender, claim)
  IN /\ requests' = res.requests
     /\ ret' = res.ret
     /\ path' = res.path
     /\ call' = [threshold |-> threshold, request |-> request,
                 sender |-> sender, claim |-> claim]
     /\ pre' = requests

\* A sentinel just constructed, with empty histories.
Constructed(cache) ==
  /\ requests = cache
  /\ ret = None
  /\ path = "new"
  /\ call = NoCall
  /\ pre = cache
  /\ wanted = None
  /\ ref = NoEntries
  /\ refRet = None
  /\ overflowed = FALSE
  /\ crowded = FALSE

LruHistoryInit ==
  /\ touchOrder = <<>>
  /\ preTouch = <<>>
  /\ evicted = {}
  /\ preEvicted = {}
  /\ lastLeft = NoEntries

\* AccountSentinel::new at the scaled capacity, with empty histories.
CoreInit ==
  /\ Constructed(Scaled(new))
  /\ LruHistoryInit

Init ==
  /\ CoreInit
  /\ fixedT = 0
  /\ sent = EmptyMap
  /\ fresh = TRUE
  /\ rounds = 0

\* Any caller, any arguments.
AddClaim ==
  /\ \E threshold \in Thresholds, request \in Requests,
        sender \in Names, claim \in Claims :
       Step(threshold, request, sender, claim)
  /\ UNCHANGED <<lruHistory, scenarioVars>>

Next == AddClaim

Spec == Init /\ [][Next]_vars

\* ------------------------------------------------------ eviction scenario
\* The same calls, with the history of which request was last submitted to
\* when, and of which requests lost their entry to eviction.

LruAddClaim ==
  /\ \E threshold \in Thresholds, request \in Requests,
        sender \in Names, claim \in LruClaims :
       /\ Step(threshold, request, sender, claim)
       /\ touchOrder' = Append(RemoveKey(touchOrder, request), request)
       /\ preTouch' = touchOrder
       /\ evicted' = (evicted \cup
                        (Live(requests) \
                           Live(add_claim(requests, threshold, request,
                                          sender, claim).requests)))
                      \ {request}
       /\ preEvicted' = evicted
       /\ lastLeft' =
            LET after == add_claim(requests, threshold, request,
                                   sender, claim).requests
            IN [b \in DOMAIN lastLeft \cup {request} |->
                  IF b # request THEN lastLeft[b]
                  ELSE IF request \in Stored(after) THEN after.map[request]
                  ELSE {}]
  /\ UNCHANGED scenarioVars

LruNext == LruAddClaim

SpecLru == Init /\ [][LruNext]_vars

\* ------------------------------------------------ single-request scenario
\* test_single_request, for any senders and claims: every call is for one
\* request with one threshold.  sent is what the caller submitted since the
\* last resolved call (the latest claim of each sender).

SingleInit ==
  /\ CoreInit
  /\ fixedT \in SingleThresholds
  /\ sent = EmptyMap
  /\ fresh = TRUE
  /\ rounds = 0

Resolved == ret.tag = "Some"

SingleSubmit ==
  /\ \E sender \in SingleNames, claim \in SingleClaims :
       LET round == IF Resolved THEN {} ELSE sent
       IN /\ Step(fixedT, SingleRequest, sender, claim)
          /\ sent' = {p \in round : p[1] # sender} \cup {<<sender, claim>>}
          /\ fresh' = IF Resolved THEN TRUE
                      ELSE fresh /\ sender \notin Keys(round)
  /\ rounds' = IF Resolved /\ rounds < MaxRounds THEN rounds + 1 ELSE rounds
  /\ UNCHANGED <<fixedT, wanted, lruHistory, refVars>>

SingleNext == SingleSubmit

SpecSingle == SingleInit /\ [][SingleNext]_vars

\* test_single_request's loop: the claims of `order` (<<sender, claim>>
\* pairs) submitted in turn to `self`; the value the last call returns.
RECURSIVE SubmitAll(_, _, _)
SubmitAll(self, threshold, order) ==
  LET res == add_claim(self, threshold, SingleRequest, order[1][1], order[1][2])
  IN IF Len(order) = 1 THEN res.ret
     ELSE SubmitAll(res.requests, threshold, Tail(order))

\* ------------------------------------------- varying-threshold scenario
\* One request, every call with its own threshold.

VaryThresholds == {0, 1, 2, 3}

VaryAddClaim ==
  /\ \E threshold \in VaryThresholds, sender \in SingleNames,
        claim \in SingleClaims :
       Step(threshold, SingleRequest, sender, claim)
  /\ UNCHANGED <<lruHistory, scenarioVars>>

VaryNext == VaryAddClaim

SpecVary == Init /\ [][VaryNext]_vars

\* -------------------------------------------------- construction scenario
\* The sentinel as new() builds it, capacity unscaled.  wanted is the
\* capacity the caller would like (None: no preference); new() has no
\* parameter to receive it.

WantedCapacities == {None, Some(2), Some(MAX_REQUEST_COUNT)}

NewNames == {1}

NewInit ==
  /\ Constructed(new)
  /\ LruHistoryInit
  /\ fixedT = 0
  /\ sent = EmptyMap
  /\ fresh = TRUE
  /\ rounds = 0

\* A caller with a capacity in mind constructs the sentinel.
NewConstruct ==
  /\ ~Called
  /\ wanted = None
  /\ wanted' \in WantedCapacities \ {None}
  /\ requests' = new
  /\ UNCHANGED <<ret, path, call, pre, lruHistory, fixedT, sent, fresh, rounds,
                 refVars>>

NewAddClaim ==
  /\ \E threshold \in Thresholds, request \in Requests,
        sender \in NewNames, claim \in LruClaims :
       Step(threshold, request, sender, claim)
  /\ UNCHANGED <<lruHistory, scenarioVars>>

NewNext == NewConstruct \/ NewAddClaim

SpecNew == NewInit /\ [][NewNext]_vars

\* ---------------------------------------------------- reference scenario
\* The same calls made to the sentinel and to a reference aggregator of
\* unbounded capacity: one sender -> claim map per pending request, cleared
\* when the request resolves.  The scenario ends once more than Capacity
\* requests are pending at once, or once the two have returned differently.

\* x is the element at 0-based index k of the claims of `pairs` sorted
\* ascending: at most k claims are smaller and more than k are not larger.
AtSortedIndex(x, pairs, k) ==
  /\ \E p \in pairs : p[2] = x
  /\ Cardinality({p \in pairs : p[2] < x}) <= k
  /\ Cardinality({p \in pairs : p[2] <= x}) > k

RefAddClaim ==
  /\ ~overflowed
  /\ ret = refRet
  /\ \E threshold \in Thresholds, request \in Requests,
        sender \in Names, claim \in LruClaims :
       LET before == IF request \in DOMAIN ref THEN ref[request] ELSE {}
           map == {p \in before : p[1] # sender} \cup {<<sender, claim>>}
           resolves == Cardinality(Keys(map)) >= threshold
           pending == IF resolves THEN DOMAIN ref \ {request}
                      ELSE DOMAIN ref \cup {request}
       IN /\ Step(threshold, request, sender, claim)
          /\ ref' = [b \in pending |-> IF b = request THEN map ELSE ref[b]]
          /\ refRet' =
               IF resolves
               THEN Some(CHOOSE x \in {p[2] : p \in map} :
                           AtSortedIndex(x, map, (Cardinality(map) - 1) \div 2))
               ELSE None
          /\ overflowed' = (Cardinality(pending) > Capacity)
          /\ crowded' = (crowded \/ (/\ request \notin DOMAIN ref
                                     /\ Cardinality(DOMAIN ref) >= Capacity))
  /\ UNCHANGED <<lruHistory, fixedT, sent, fresh, rounds, wanted>>

RefNext == RefAddClaim

SpecRef == Init /\ [][RefNext]_vars

\* ------------------------------------------------------------------ claims


\* C1: with threshold t >= 1 and a request that starts with no stored state,
\* each of the first t-1 submissions from pairwise distinct senders returns
\* None, and the t-th returns Some(m), m the element at index (t-1)/2 of the
\* t submitted claims sorted ascending.
C1_ThresholdMedian ==
  (Called /\ rounds = 0 /\ fresh) =>
     /\ Cardinality(sent) <= fixedT
     /\ Cardinality(sent) < fixedT => ret = None
     /\ Cardinality(sent) = fixedT =>
          /\ Resolved
          /\ AtSortedIndex(ret.val, sent, (fixedT - 1) \div 2)

\* C1 witness: four distinct senders, threshold 4, claims 3,1,3,2 resolve to 2.
C1_Witness ==
  /\ Called /\ rounds = 0 /\ fresh /\ fixedT = 4
  /\ sent = {<<1, 3>>, <<2, 1>>, <<3, 3>>, <<4, 2>>}
  /\ ret = Some(2)

\* C2: after a resolved call the request has no stored state; the next
\* resolution needs fixedT distinct senders submitted after it and is the
\* median of those later claims only.
C2_RestartAfterResolution ==
  /\ (Called /\ Resolved) => SingleRequest \notin Stored(requests)
  /\ (Called /\ rounds >= 1) =>
       /\ Resolved <=> Cardinality(Keys(sent)) >= fixedT
       /\ Resolved => AtSortedIndex(ret.val, sent, (Cardinality(sent) - 1) \div 2)
       /\ ~Resolved => /\ SingleRequest \in Stored(requests)
                       /\ requests.map[SingleRequest] = sent

\* C2 witness: a second round with threshold 3 resolves from its own three claims.
C2_Witness ==
  /\ Called /\ rounds = 1 /\ fixedT = 3 /\ Resolved
  /\ sent = {<<1, 1>>, <<2, 1>>, <<4, 3>>}
  /\ ret = Some(1)

\* The last call's request entry before the call (empty when it had none),
\* the entry the call's insert makes of it, and its distinct senders.
MapBefore == IF call.request \in Stored(pre) THEN pre.map[call.request] ELSE {}

OwnAfter ==
  {p \in MapBefore : p[1] # call.sender} \cup {<<call.sender, call.claim>>}

SendersAfter == Keys(MapBefore) \cup {call.sender}

\* C3: add_claim returns a resolved claim iff the request's distinct senders
\* after the insert number at least the threshold; a resolved request has
\* no entry afterwards and an unresolved one has an entry with fewer than
\* threshold senders.
C3_ResolvedIffThreshold ==
  Called =>
    /\ Resolved <=> Cardinality(SendersAfter) >= call.threshold
    /\ Resolved => call.request \notin Stored(requests)
    /\ ~Resolved =>
         /\ ret = None
         /\ call.request \in Stored(requests)
         /\ Cardinality(Keys(requests.map[call.request])) < call.threshold
    /\ ~(/\ call.request \in Stored(requests)
         /\ Cardinality(Keys(requests.map[call.request])) >= call.threshold)

\* C3 witness: the second distinct sender reaches threshold 2 and the entry is gone.
C3_Witness ==
  /\ Called /\ Resolved /\ call.threshold = 2
  /\ Cardinality(SendersAfter) = 2
  /\ call.request \in Stored(pre) /\ call.request \notin Stored(requests)

\* The call needs no eviction: its request is stored or the store has room.
WithinCapacity ==
  call.request \in Stored(pre) \/ Cardinality(Stored(pre)) < Capacity

Resubmission ==
  /\ Called
  /\ call.sender \in Keys(MapBefore)
  /\ <<call.sender, call.claim>> \notin MapBefore
  /\ Cardinality(Keys(MapBefore)) < call.threshold

\* C5: a sender resubmitting a different claim below the threshold replaces
\* its stored claim and the distinct senders stay the same; every stored
\* entry holds at most one claim per sender.
C5_ResubmitOverwrites ==
  /\ \A r \in Stored(requests) :
       \A p, q \in requests.map[r] : p[1] = q[1] => p = q
  /\ Resubmission =>
       /\ ret = None
       /\ call.request \in Stored(requests)
       /\ Keys(requests.map[call.request]) = Keys(MapBefore)
       /\ <<call.sender, call.claim>> \in requests.map[call.request]
       /\ \A p \in MapBefore :
            p[1] # call.sender => p \in requests.map[call.request]
       /\ Cardinality(requests.map[call.request]) = Cardinality(MapBefore)

\* C5 witness: sender 1 replaces its claim 1 by 2 under threshold 2.
C5_Witness ==
  /\ Resubmission /\ call.threshold = 2
  /\ MapBefore = {<<1, 1>>}
  /\ requests.map[call.request] = {<<1, 2>>}

\* C6: the store never holds more than Capacity request entries.
C6_CapacityBound ==
  /\ Cardinality(Stored(requests)) <= Capacity
  /\ Len(requests.list) = Cardinality(Stored(requests))

\* C6 witness: a new request arrived at a full store and the store is still full.
C6_Witness ==
  /\ Called /\ call.request \notin Stored(pre)
  /\ Cardinality(Stored(pre)) = Capacity
  /\ call.request \in Stored(requests)
  /\ Cardinality(Stored(requests)) = Capacity

\* The last call created an entry while the store was full.
EvictingCall ==
  /\ Called
  /\ call.request \notin Stored(pre)
  /\ Cardinality(Stored(pre)) = Capacity

Victims == Stored(pre) \ Stored(requests)

Position(seq, x) == CHOOSE i \in 1..Len(seq) : seq[i] = x

\* The stored request whose last add_claim call is the oldest.
OldestTouched ==
  CHOOSE b \in Stored(pre) :
    \A o \in Stored(pre) : Position(preTouch, b) <= Position(preTouch, o)

\* C7: a call that creates an entry in a full store evicts exactly one
\* entry, the one least recently submitted to, and never the one it wrote.
C7_EvictsLeastRecentlyTouched ==
  EvictingCall =>
    /\ Stored(pre) \subseteq {preTouch[i] : i \in 1..Len(preTouch)}
    /\ Victims = {OldestTouched}
    /\ call.request \notin Victims
    /\ ~Resolved => call.request \in Stored(requests)
    /\ \A b \in Stored(pre) \ Victims : requests.map[b] = pre.map[b]

\* C7 witness: request 2 was submitted to before request 1 and is the victim
\* when request 3 arrives; request 1 stays.
C7_Witness ==
  /\ EvictingCall /\ call.request = 3 /\ ~Resolved
  /\ Stored(pre) = {1, 2}
  /\ Position(preTouch, 2) < Position(preTouch, 1)
  /\ Stored(requests) = {1, 3}

\* C8: the first call for a request whose entry was evicted finds no entry:
\* with threshold >= 2 it returns None and the recreated entry holds only
\* the claim just submitted.
C8_EvictedRestarts ==
  (Called /\ call.request \in preEvicted) =>
    /\ call.request \notin Stored(pre)
    /\ Cardinality(SendersAfter) = 1
    /\ call.threshold >= 2 =>
         /\ ret = None
         /\ call.request \in Stored(requests)
         /\ requests.map[call.request] = {<<call.sender, call.claim>>}

\* C8 witness: an evicted request is submitted to again with threshold 2.
C8_Witness ==
  /\ Called /\ call.request \in preEvicted /\ call.threshold = 2
  /\ ret = None
  /\ requests.map[call.request] = {<<2, 1>>}

\* C9: with threshold 0 the first submission for a request with no stored
\* state returns its own claim and leaves no entry for the request.
C9_ZeroThreshold ==
  (Called /\ call.threshold = 0 /\ call.request \notin Stored(pre)) =>
    /\ ret = Some(call.claim)
    /\ call.request \notin Stored(requests)

\* C9 witness: threshold 0 on a fresh request while another request is pending.
C9_Witness ==
  /\ Called /\ call.threshold = 0 /\ call.request \notin Stored(pre)
  /\ Stored(pre) # {} /\ call.claim = 2 /\ ret = Some(2)

\* C10: every call ends in None or a resolved claim; the empty-map branch of
\* pick_median and the out-of-range index are never reached, so a call with
\* at least threshold senders returns Some.
C10_Total ==
  Called =>
    /\ path \in {"below", "resolved"}
    /\ ret \in {None} \cup {Some(c) : c \in Claims}
    /\ path = "below" <=> ret = None
    /\ Cardinality(SendersAfter) >= call.threshold => Resolved

\* C10 witness: threshold 0 on a request that already holds a claim.
C10_Witness ==
  /\ Called /\ path = "resolved" /\ call.threshold = 0
  /\ Cardinality(SendersAfter) = 2 /\ Resolved

\* C11 (as claimed): the sentinel's capacity is the one the caller supplied,
\* and 1000 when none was.
C11_CallerCapacity ==
  /\ wanted = None => requests.capacity = 1000
  /\ wanted # None => requests.capacity = wanted.val

\* C11 (amended): new() takes no capacity; every sentinel is built with
\* capacity MAX_REQUEST_COUNT = 1000, whatever the caller has in mind, and
\* holds as many pending requests as are submitted below that.
C11_FixedCapacity ==
  /\ requests.capacity = 1000
  /\ pre.capacity = 1000
  /\ (Called /\ ~Resolved) =>
       Stored(requests) = Stored(pre) \cup {call.request}

\* C11 witness: the caller had capacity 2 in mind and three requests are pending.
C11_Witness ==
  /\ wanted = Some(2)
  /\ requests.capacity = 1000
  /\ Cardinality(Stored(requests)) = 3

\* C12 (as claimed): a call that returns not-resolved changes nothing but
\* its own request's entry: no other entry is created, modified or removed.
C12_OnlyOwnEntryChanges ==
  (Called /\ ~Resolved) =>
    /\ call.request \in Stored(requests)
    /\ requests.map[call.request] = OwnAfter
    /\ \A b \in Requests \ {call.request} :
         /\ b \in Stored(requests) <=> b \in Stored(pre)
         /\ b \in Stored(pre) => requests.map[b] = pre.map[b]

\* C12 (amended): a call that returns not-resolved stores its claim in its
\* own request's entry and creates or modifies no other entry; it removes
\* another entry only when it creates its own in a full store, and then
\* exactly the least recently submitted-to one.
C12_OwnEntryAndEviction ==
  (Called /\ ~Resolved) =>
    /\ ret = None
    /\ call.request \in Stored(requests)
    /\ requests.map[call.request] = OwnAfter
    /\ \A b \in Stored(requests) \ {call.request} :
         b \in Stored(pre) /\ requests.map[b] = pre.map[b]
    /\ Victims = IF EvictingCall THEN {OldestTouched} ELSE {}

\* C12 witness: request 1 is created in a full store with threshold 2,
\* returns None and costs request 3 its entry.
C12_Witness ==
  /\ Called /\ ~Resolved /\ call.request = 1 /\ call.threshold = 2
  /\ Stored(pre) = {2, 3} /\ pre.map[3] # {}
  /\ Stored(requests) = {1, 2}
  /\ requests.map[1] = {<<call.sender, call.claim>>}

\* C13: a resolving call that finds more senders stored than its threshold
\* returns the element at index (n-1)/2 of all n stored claims sorted
\* ascending, and removes the whole entry.
C13_MedianOfAllStored ==
  (Called /\ Cardinality(OwnAfter) > call.threshold) =>
    /\ Resolved
    /\ AtSortedIndex(ret.val, OwnAfter, (Cardinality(OwnAfter) - 1) \div 2)
    /\ call.request \notin Stored(requests)

\* C13 witness: claims 3 and 1 were stored under a higher threshold; a call
\* with threshold 1 adds 2 and returns 2, the median of all three.
C13_Witness ==
  /\ Called /\ Resolved /\ call.threshold = 1
  /\ MapBefore = {<<1, 3>>, <<2, 1>>}
  /\ call.sender = 3 /\ call.claim = 2
  /\ ret = Some(2)
  /\ Stored(requests) = {}

\* C14: a resolved claim is the latest claim of some sender stored for the
\* request at resolution (the one just submitted included), never a claim
\* its sender has overwritten or one held only for another request.
C14_ResultIsStoredClaim ==
  (Called /\ Resolved) =>
    /\ \E p \in OwnAfter : p[2] = ret.val
    /\ \A p \in MapBefore :
         (p[1] = call.sender /\ p[2] # call.claim /\ ret.val = p[2]) =>
            \E q \in OwnAfter : q[1] # call.sender /\ q[2] = p[2]

\* C14 witness: sender 1 overwrites its claim 1 by 2 and the call resolves
\* to 2, while another request holds a claim of 1.
C14_Witness ==
  /\ Called /\ Resolved /\ call.threshold = 1
  /\ MapBefore = {<<1, 1>>} /\ call.sender = 1 /\ call.claim = 2
  /\ \E b \in Stored(pre) \ {call.request} : pre.map[b] = {<<2, 1>>}
  /\ ret = Some(2)

\* C15: an entry stored before a call is gone after it only if the call was
\* for that request and resolved, or the call created another request's
\* entry in a full store and this entry was the least recently submitted
\* to; an entry that stays keeps its claims (but for the sender's own
\* overwritten one).
C15_PersistsUntilResolvedOrEvicted ==
  Called =>
    \A b \in Stored(pre) :
      /\ b \notin Stored(requests) =>
           \/ b = call.request /\ Resolved
           \/ b # call.request /\ EvictingCall /\ b = OldestTouched
      /\ (b \in Stored(requests) /\ b # call.request) =>
           requests.map[b] = pre.map[b]
      /\ (b \in Stored(requests) /\ b = call.request) =>
           \A p \in pre.map[b] :
             p[1] # call.sender => p \in requests.map[b]

\* C15 witness: request 2 resolves on its second sender and leaves the
\* store; request 1 stays as it was.
C15_Witness ==
  /\ Called /\ Resolved /\ call.request = 2 /\ call.threshold = 2
  /\ Stored(pre) = {1, 2} /\ Stored(requests) = {1}
  /\ requests.map[1] = pre.map[1]

\* The distinct requests submitted to since the last call for r.
TouchedSince(r) ==
  {touchOrder[i] : i \in (Position(touchOrder, r) + 1)..Len(touchOrder)}

\* C16: a request left pending by its last call still has its entry, with
\* the claims that call left, as long as fewer than Capacity distinct other
\* requests have been submitted to since.
C16_SurvivesFewerThanCapacity ==
  \A r \in DOMAIN lastLeft :
    (lastLeft[r] # {} /\ Cardinality(TouchedSince(r)) < Capacity) =>
      /\ r \in Stored(requests)
      /\ requests.map[r] = lastLeft[r]

\* C16 witness: request 1 is pending, request 2 alone was submitted to
\* since, after request 3 had been, and request 1 is still stored.
C16_Witness ==
  /\ touchOrder = <<3, 1, 2>>
  /\ lastLeft[1] # {} /\ lastLeft[3] # {}
  /\ TouchedSince(1) = {2}
  /\ 1 \in Stored(requests) /\ requests.map[1] = lastLeft[1]
  /\ 3 \notin Stored(requests)

\* Every order in which the pairs can be submitted.
Orders(pairs) ==
  {q \in [1..Cardinality(pairs) -> pairs] :
     \A i, j \in 1..Cardinality(pairs) : q[i] = q[j] => i = j}

\* C17: for pairwise distinct senders and a threshold equal to their number,
\* the resolving call returns the same claim whatever the order in which
\* the pairs are submitted.
C17_OrderIrrelevant ==
  (Called /\ fresh /\ Cardinality(sent) = fixedT) =>
    /\ Resolved
    /\ \A q \in Orders(sent) : SubmitAll(Scaled(new), fixedT, q) = ret

\* C17 witness: claims 2, 3, 1 arrive from senders 3, 1, 2 with threshold 3
\* and the call that resolves, sender 2's, returns 2.
C17_Witness ==
  /\ Called /\ fresh /\ fixedT = 3
  /\ sent = {<<1, 3>>, <<2, 1>>, <<3, 2>>}
  /\ call.sender = 2
  /\ ret = Some(2)

\* C18 (as claimed): while no more than Capacity requests have been pending
\* at once, every call returns what the unbounded reference returns.
C18_SameAsUnbounded ==
  ~overflowed => ret = refRet

\* C18 (amended): while no call has made a request pending beside Capacity
\* others (the call's own request counted even when that call resolves it),
\* every call returns what the unbounded reference returns and the store
\* holds the reference's pending maps.
C18_SameUntilCrowded ==
  ~crowded =>
    /\ ret = refRet
    /\ Stored(requests) = DOMAIN ref
    /\ \A b \in DOMAIN ref : requests.map[b] = ref[b]

\* C18 witness: with Capacity requests pending, one of them resolves on its
\* second sender, as in the reference.
C18_Witness ==
  /\ Called /\ ~crowded /\ Resolved /\ call.threshold = 2
  /\ Cardinality(Stored(pre)) = Capacity
  /\ ret = refRet /\ ret = Some(1)
  /\ OwnAfter = {<<1, 1>>, <<2, 1>>}

\* C19: between calls every stored entry holds at least one sender's claim,
\* and a call with threshold 0 or 1 returns a resolved claim and leaves no
\* entry for its request.
C19_EntriesNonEmpty ==
  /\ \A r \in Stored(requests) : MapLen(requests.map[r]) >= 1
  /\ (Called /\ call.threshold \in {0, 1}) =>
       /\ Resolved
       /\ call.request \notin Stored(requests)

\* C19 witness: a request pending with one sender is resolved by a call with
\* threshold 1 while another request stays pending with its claim.
C19_Witness ==
  /\ Called /\ call.threshold = 1 /\ call.request \in Stored(pre)
  /\ Resolved /\ call.request \notin Stored(requests)
  /\ \E r \in Stored(requests) : requests.map[r] = {<<1, 2>>}

====
